---- MODULE Spec2Model ----
(***************************************************************************)
(* Model of the daily summary pipeline of create_summary_table.py.         *)
(*                                                                         *)
(* Units.  Floats of the program are kept as exact integers:               *)
(*   mass                  grams                                           *)
(*   percent_target        tenths of a percent        (45 is 4.5 %)        *)
(*   volume, totalvol,     microlitres                (3125 is 3.125 mL)   *)
(*   volume_target, water_diff                                             *)
(*   starttime, endtime    seconds since midnight (datetime.timedelta)     *)
(*   train_dur_hrs,        hundredths                 (500 is 5.0)         *)
(*   trial_rate                                                            *)
(*   total_correct, percent_violations, right_correct, left_correct        *)
(*                         hundredths                 (80 is 0.8)          *)
(* np.round is round-half-to-even; the value sets below hold no input on   *)
(* which binary floating point rounds differently from exact arithmetic.   *)
(***************************************************************************)
EXTENDS Integers, Sequences, FiniteSets, TLC

VARIABLES
    Mass,       \* ratinfo.Mass     : sequence of rows, in the order the source returns them
    Water,      \* ratinfo.Water    : sequence of rows
    Rigwater,   \* ratinfo.Rigwater : sequence of rows
    Sessions,   \* bdata.Sessions   : sequence of rows
    file,       \* the csv file at save_dir/f_name: NoFile or CsvFile(rows)
    saves,      \* how many times the csv file has been written
    ret         \* the last call: its name, its arguments and what it returned or raised

vars == <<Mass, Water, Rigwater, Sessions, file, saves, ret>>

-----------------------------------------------------------------------------
(* Bounds of the model *)

\* most rows a table holds for one (animal, date) key
MaxDup == 2

\* most Sessions rows of the session specification
MaxSessions == 2

\* last calendar day of the build specification (days are numbered from 1)
MaxDate == 3

\* most writes of the csv file in one behaviour of the build specification
MaxSaves == 2

-----------------------------------------------------------------------------
(* Cells of a data frame *)

NaN == <<"nan">>
Inf == <<"inf">>
Num(v) == <<"num", v>>
Str(s) == <<"str", s>>

\* a quotient num/den of integers, den > 0, kept unreduced; two are the same
\* number when they cross-multiply equal
Rat(num, den) == <<"rat", num, den>>

IsNaN(c) == c = NaN

\* a date cell: a datetime.date, or the text of a date in a csv file
\* ("YYYY-MM-DD"); DayOf is the day either names
DateObj(d) == <<"date", d>>
DateStr(d) == <<"str", d>>
DayOf(c) == c[2]

\* x / q rounded to the nearest integer, ties to the even one (q > 0)
RoundHalfEven(x, q) ==
    LET lo == x \div q
        r  == x % q
    IN  IF 2 * r > q THEN lo + 1
        ELSE IF 2 * r < q THEN lo
        ELSE IF lo % 2 = 0 THEN lo ELSE lo + 1

RECURSIVE SeqMax(_)
SeqMax(s) ==
    IF Len(s) = 1 THEN s[1]
    ELSE LET m == SeqMax(Tail(s)) IN IF s[1] >= m THEN s[1] ELSE m

RECURSIVE SeqMin(_)
SeqMin(s) ==
    IF Len(s) = 1 THEN s[1]
    ELSE LET m == SeqMin(Tail(s)) IN IF s[1] <= m THEN s[1] ELSE m

RECURSIVE SeqSum(_)
SeqSum(s) == IF s = <<>> THEN 0 ELSE s[1] + SeqSum(Tail(s))

RECURSIVE Concat(_)
Concat(ss) == IF ss = <<>> THEN <<>> ELSE ss[1] \o Concat(Tail(ss))

Column(rows, f) == [i \in 1..Len(rows) |-> rows[i][f]]

\* all sequences over S of length 0..n
SeqsUpTo(S, n) == UNION {[1..k -> S] : k \in 0..n}

-----------------------------------------------------------------------------
(* What a call returns *)

Ok(v, printed) == [status |-> "ok", val |-> v, out |-> printed]
Raised(e, printed) == [status |-> "raised", exc |-> e, out |-> printed]

NoCall == [op |-> "none"]
\* the csv file: absent, or its rows
NoFile == [exists |-> FALSE, rows |-> <<>>]
CsvFile(rows) == [exists |-> TRUE, rows |-> rows]

-----------------------------------------------------------------------------
(* Queries *)

MassRows(animal_id, date) ==
    SelectSeq(Mass, LAMBDA r : r.ratname = animal_id /\ r.date = date)

WaterRows(animal_id, date) ==
    SelectSeq(Water, LAMBDA r : r.rat = animal_id /\ r.date = date)

RigwaterRows(animal_id, date) ==
    SelectSeq(Rigwater, LAMBDA r : r.ratname = animal_id /\ r.dateval = date)

-----------------------------------------------------------------------------
(* Water and mass functions *)

\* variant: a mass found on neither day is returned as 0
fetch_daily_mass_zeroed(animal_id, date, verbose) ==
    LET rows == MassRows(animal_id, date)
        prev == MassRows(animal_id, date - 1)
    IN  IF Len(rows) = 1 THEN Ok(<<rows[1].mass, Str(rows[1].tech)>>, <<>>)
        ELSE IF Len(prev) = 1 THEN Ok(<<prev[1].mass, NaN>>, <<>>)
        ELSE Ok(<<0, NaN>>, <<>>)

\* variant: the fallback also reads the technician of the previous day's row
fetch_daily_mass_prev_tech(animal_id, date, verbose) ==
    LET rows == MassRows(animal_id, date)
        prev == MassRows(animal_id, date - 1)
    IN  IF Len(rows) = 1 THEN Ok(<<rows[1].mass, Str(rows[1].tech)>>, <<>>)
        ELSE IF Len(prev) = 1 THEN Ok(<<prev[1].mass, Str(prev[1].tech)>>, <<>>)
        ELSE Raised("DataJointError", <<>>)

\* fetch1 raises DataJointError unless exactly one row matches
fetch_daily_mass(animal_id, date, verbose) ==
    LET rows == MassRows(animal_id, date)
    IN  IF Len(rows) = 1
        THEN Ok(<<rows[1].mass, Str(rows[1].tech)>>, <<>>)
        ELSE LET printed   == IF verbose THEN <<"using previous days mass">> ELSE <<>>
                 prev_date == date - 1
                 prev      == MassRows(animal_id, prev_date)
             IN  IF Len(prev) = 1
                 THEN Ok(<<prev[1].mass, NaN>>, printed)
                 ELSE Raised("DataJointError", printed)

\* variant: the first of several rows instead of their maximum
fetch_daily_restriction_target_first(animal_id, date) ==
    LET percent_target == Column(WaterRows(animal_id, date), "percent_target")
    IN  IF Len(percent_target) = 0 THEN 0 ELSE percent_target[1]

fetch_daily_restriction_target(animal_id, date) ==
    LET percent_target == Column(WaterRows(animal_id, date), "percent_target")
    IN  IF Len(percent_target) = 0 THEN 0
        ELSE IF Len(percent_target) > 1 THEN SeqMax(percent_target)
        ELSE percent_target[1]

\* variant: several rows give their maximum, as in fetch_pub_volume
fetch_rig_volume_max(animal_id, date, verbose) ==
    LET rows == RigwaterRows(animal_id, date)
    IN  IF Len(rows) >= 1
        THEN [val |-> SeqMax(Column(rows, "totalvol")), out |-> <<>>]
        ELSE [val |-> 0, out |-> <<>>]

\* fetch1 raises DataJointError unless exactly one row matches
fetch_rig_volume(animal_id, date, verbose) ==
    LET rows == RigwaterRows(animal_id, date)
    IN  IF Len(rows) = 1
        THEN [val |-> rows[1].totalvol, out |-> <<>>]
        ELSE [val |-> 0,
              out |-> IF verbose THEN <<"rig volume was empty, defaulting to 0 mL">>
                      ELSE <<>>]

fetch_pub_volume(animal_id, date) ==
    LET pub_volume == Column(WaterRows(animal_id, date), "volume")
    IN  IF Len(pub_volume) = 0 THEN 0
        ELSE IF Len(pub_volume) > 1 THEN SeqMax(pub_volume)
        ELSE pub_volume[1]

\* variant: a mass of exactly 100 g takes the 4 % minimum
fetch_daily_water_target_le(mass, percent_target, date, verbose) ==
    LET pt == IF percent_target = 0
              THEN (IF mass <= 100 THEN 40 ELSE 30)
              ELSE percent_target
    IN  [val |-> 10 * RoundHalfEven(pt * mass, 10), out |-> <<>>]

\* (percent_target / 100) * mass mL is percent_target (tenths) * mass microlitres;
\* np.round(., 2) rounds it to a multiple of 10 microlitres
fetch_daily_water_target(mass, percent_target, date, verbose) ==
    LET defaulted == percent_target = 0
        pt        == IF defaulted
                     THEN (IF mass < 100 THEN 40 ELSE 30)
                     ELSE percent_target
    IN  [val |-> 10 * RoundHalfEven(pt * mass, 10),
         out |-> IF defaulted /\ verbose
                 THEN <<"Percent target was empty, defaulting to minimum.">>
                 ELSE <<>>]

\* variant: the difference rounded to 2 decimals
water_diff_rounded(pub_volume, rig_volume, volume_target) ==
    10 * RoundHalfEven((pub_volume + rig_volume) - volume_target, 10)

water_diff(pub_volume, rig_volume, volume_target) ==
    (pub_volume + rig_volume) - volume_target

\* lines 318-326, given what fetch_daily_mass returned or raised
water_and_mass_row(animal_id, date, m, percent_target, pub_volume, rig, verbose) ==
    IF m.status = "raised" THEN m
    ELSE LET target == fetch_daily_water_target(m.val[1], percent_target, date, verbose)
         IN  Ok([animal_id      |-> animal_id,
                 date           |-> DateObj(date),
                 mass           |-> m.val[1],
                 tech           |-> m.val[2],
                 percent_target |-> percent_target,
                 pub_volume     |-> pub_volume,
                 rig_volume     |-> rig.val,
                 volume_target  |-> target.val,
                 water_diff     |-> water_diff(pub_volume, rig.val, target.val)],
                m.out \o rig.out \o target.out)

fetch_daily_water_and_mass_info(animal_id, date, verbose) ==
    water_and_mass_row(animal_id, date,
                       fetch_daily_mass(animal_id, date, verbose),
                       fetch_daily_restriction_target(animal_id, date),
                       fetch_pub_volume(animal_id, date),
                       fetch_rig_volume(animal_id, date, verbose),
                       verbose)

-----------------------------------------------------------------------------
(* Session functions *)

\* variant: rows with 0 or 1 trials are not filtered out
SessionRows_unfiltered(animal_id, date) ==
    SelectSeq(Sessions, LAMBDA r : r.ratname = animal_id /\ r.sessiondate = date)

\* (bdata.Sessions & query_keys & "n_done_trials > 1"), in the source's order
SessionRows(animal_id, date) ==
    SelectSeq(Sessions, LAMBDA r : /\ r.ratname = animal_id
                                   /\ r.sessiondate = date
                                   /\ r.n_done_trials > 1)

time_conversion(units) ==
    IF units = "hours" THEN 3600 ELSE IF units = "minutes" THEN 60 ELSE 1

\* np.sum(end_times - start_times) in seconds
daily_train_dur_seconds(start_times, end_times) ==
    SeqSum([i \in 1..Len(start_times) |-> end_times[i] - start_times[i]])

\* variant: a session that ends before it starts counts as 0 seconds
calculate_daily_train_dur_clipped(start_times, end_times, units) ==
    RoundHalfEven(
        100 * SeqSum([i \in 1..Len(start_times) |->
                         IF end_times[i] < start_times[i] THEN 0
                         ELSE end_times[i] - start_times[i]]),
        time_conversion(units))

\* the duration in 'units', rounded to 2 decimals (a count of hundredths)
calculate_daily_train_dur(start_times, end_times, units) ==
    RoundHalfEven(100 * daily_train_dur_seconds(start_times, end_times),
                  time_conversion(units))

\* variant: the plain mean of the sessions, whatever their trial counts
average_unweighted(a, weights) == Rat(SeqSum(a), Len(a))

\* np.average(a, weights = w) is sum(a * w) / sum(w)
average(a, weights) ==
    Rat(SeqSum([i \in 1..Len(a) |-> a[i] * weights[i]]), SeqSum(weights))

calculate_perf_metrics(perf_metrics, n_done_trials) ==
    LET hit_rate  == average(perf_metrics[1], n_done_trials)
        viol_rate == average(perf_metrics[2], n_done_trials)
        side_bias == average([i \in 1..Len(n_done_trials) |->
                                 perf_metrics[3][i] - perf_metrics[4][i]],
                             n_done_trials)
    IN  <<hit_rate, viol_rate, side_bias>>

\* str(timedelta) is "H:MM:SS" only within one day; strptime raises otherwise
strptime_time(st) ==
    [hour |-> st \div 3600, minute |-> (st % 3600) \div 60, second |-> st % 60]

\* np.round(n_done_trials / train_dur_hrs, 2): numpy divides by 0.0 to an
\* infinity (with a RuntimeWarning), and the sum of trial counts is positive
trial_rate(n_done_trials, train_dur_hrs, seconds) ==
    IF train_dur_hrs > 0 THEN Num(RoundHalfEven(10000 * n_done_trials, train_dur_hrs))
    ELSE IF train_dur_hrs < 0
         THEN Num(-RoundHalfEven(10000 * n_done_trials, -train_dur_hrs))
    ELSE IF seconds < 0 THEN <<"-inf">> ELSE Inf

\* variant: the counts are 0 and the duration is missing
no_session_row_zero_counts(animal_id, date) ==
    [animal_id     |-> animal_id,
     date          |-> DateObj(date),
     rigid         |-> NaN,
     n_done_trials |-> Num(0),
     n_sessions    |-> 0,
     start_time    |-> NaN,
     train_dur_hrs |-> NaN,
     trial_rate    |-> NaN,
     hit_rate      |-> NaN,
     viol_rate     |-> NaN,
     side_bias     |-> NaN]

\* the row for a day with no session
no_session_row(animal_id, date) ==
    [animal_id     |-> animal_id,
     date          |-> DateObj(date),
     rigid         |-> NaN,
     n_done_trials |-> NaN,
     n_sessions    |-> 0,
     start_time    |-> NaN,
     train_dur_hrs |-> Num(0),
     trial_rate    |-> NaN,
     hit_rate      |-> NaN,
     viol_rate     |-> NaN,
     side_bias     |-> NaN]

fetch_daily_session_info(animal_id, date) ==
    LET rows          == SessionRows(animal_id, date)
        n_done_trials == Column(rows, "n_done_trials")
        rigid         == Column(rows, "hostname")
        start_times   == Column(rows, "starttime")
        end_times     == Column(rows, "endtime")
        perf_metrics  == <<Column(rows, "total_correct"),
                           Column(rows, "percent_violations"),
                           Column(rows, "right_correct"),
                           Column(rows, "left_correct")>>
    IN  IF Len(n_done_trials) = 0
        THEN Ok(no_session_row(animal_id, date), <<>>)
        ELSE LET st   == SeqMin(start_times)
                 n    == SeqSum(n_done_trials)
                 dur  == calculate_daily_train_dur(start_times, end_times, "hours")
                 perf == calculate_perf_metrics(perf_metrics, n_done_trials)
             IN  IF st < 0 \/ st >= 86400
                 THEN Raised("ValueError", <<>>)
                 ELSE Ok([animal_id     |-> animal_id,
                          date          |-> DateObj(date),
                          rigid         |-> Str(rigid[Len(rigid)]),
                          n_done_trials |-> Num(n),
                          n_sessions    |-> Len(n_done_trials),
                          start_time    |-> <<"time", strptime_time(st)>>,
                          train_dur_hrs |-> Num(dur),
                          trial_rate    |-> trial_rate(n, dur,
                                              daily_train_dur_seconds(start_times,
                                                                      end_times)),
                          hit_rate      |-> perf[1],
                          viol_rate     |-> perf[2],
                          side_bias     |-> perf[3]],
                         <<>>)

-----------------------------------------------------------------------------
(* The daily summary table *)

\* pd.merge(left, right, on = ["animal_id", "date"]): an inner join, in the
\* order of the left rows
merge(left, right) ==
    Concat([k \in 1..Len(left) |->
               LET l       == left[k]
                   matches == SelectSeq(right,
                                        LAMBDA r : /\ r.animal_id = l.animal_id
                                                   /\ r.date = l.date)
               IN  [i \in 1..Len(matches) |-> l @@ matches[i]]])

SetMin(S) == CHOOSE x \in S : \A y \in S : x <= y
SetMax(S) == CHOOSE x \in S : \A y \in S : y <= x

\* lines 108-117 on the one-row frames fetched for the dates: the loop stops at
\* the first fetch that raises; pd.concat of an empty list raises ValueError
merge_daily(session_dfs, water_mass_dfs, verbose) ==
    LET n       == Len(session_dfs)
        raising == {i \in 1..n : \/ session_dfs[i].status = "raised"
                                 \/ water_mass_dfs[i].status = "raised"}
    IN  IF raising # {}
        THEN LET k == SetMin(raising)
             IN  IF session_dfs[k].status = "raised"
                 THEN Raised(session_dfs[k].exc,
                             Concat([i \in 1..(k - 1) |-> water_mass_dfs[i].out]))
                 ELSE Raised(water_mass_dfs[k].exc,
                             Concat([i \in 1..k |-> water_mass_dfs[i].out]))
        ELSE IF n = 0 THEN Raised("ValueError", <<>>)
        ELSE Ok(merge(Column(session_dfs, "val"), Column(water_mass_dfs, "val")),
                Concat(Column(water_mass_dfs, "out"))
                    \o (IF verbose THEN <<"fetched daily summaries">> ELSE <<>>))

create_animal_daily_summary_df(animal_id, dates, verbose) ==
    merge_daily(
        [i \in 1..Len(dates) |-> fetch_daily_session_info(animal_id, dates[i])],
        [i \in 1..Len(dates) |->
            fetch_daily_water_and_mass_info(animal_id, dates[i], verbose)],
        verbose)

\* the members of a set of days, ascending
RECURSIVE SortedSeq(_)
SortedSeq(S) ==
    IF S = {} THEN <<>>
    ELSE LET m == CHOOSE x \in S : \A y \in S : x <= y
         IN  <<m>> \o SortedSeq(S \ {m})

\* variant: the dates of the two tables concatenated, repeats kept
entry_dates_repeated(animal_id, date_min, date_max) ==
    SortedSeq({Mass[j].date : j \in {i \in 1..Len(Mass) :
                                        /\ Mass[i].ratname = animal_id
                                        /\ Mass[i].date >= date_min
                                        /\ Mass[i].date <= date_max}})
    \o SortedSeq({Sessions[j].sessiondate :
                     j \in {i \in 1..Len(Sessions) :
                               /\ Sessions[i].ratname = animal_id
                               /\ Sessions[i].sessiondate >= date_min
                               /\ Sessions[i].sessiondate <= date_max}})

\* np.unique of the dates with a Sessions row (of any trial count) or a Mass row
\* of the animal within date_min..date_max
entry_dates(animal_id, date_min, date_max) ==
    LET sess_dates == {Sessions[i].sessiondate :
                          i \in {j \in 1..Len(Sessions) :
                                    /\ Sessions[j].ratname = animal_id
                                    /\ Sessions[j].sessiondate >= date_min
                                    /\ Sessions[j].sessiondate <= date_max}}
        mass_dates == {Mass[i].date :
                          i \in {j \in 1..Len(Mass) :
                                    /\ Mass[j].ratname = animal_id
                                    /\ Mass[j].date >= date_min
                                    /\ Mass[j].date <= date_max}}
    IN  SortedSeq(mass_dates \cup sess_dates)

\* lines 76-78 on the frames of the animals: the loop stops at the first animal
\* whose frame raises; pd.concat of an empty list raises ValueError
concat_animals(animals_daily_summary_df) ==
    LET n       == Len(animals_daily_summary_df)
        raising == {i \in 1..n : animals_daily_summary_df[i].status = "raised"}
    IN  IF raising # {}
        THEN LET k == SetMin(raising)
             IN  Raised(animals_daily_summary_df[k].exc,
                        Concat([i \in 1..k |-> animals_daily_summary_df[i].out]))
        ELSE IF n = 0 THEN Raised("ValueError", <<>>)
        ELSE Ok(Concat(Column(animals_daily_summary_df, "val")),
                Concat(Column(animals_daily_summary_df, "out")))

create_daily_summary_from_dj(animal_ids, date_min, date_max, verbose) ==
    concat_animals(
        [i \in 1..Len(animal_ids) |->
            create_animal_daily_summary_df(
                animal_ids[i], entry_dates(animal_ids[i], date_min, date_max),
                verbose)])

-----------------------------------------------------------------------------
(* The csv file *)

\* the order of animal ids as strings
AnimalOrder == <<"R610", "R611">>
AnimalRank(a) == CHOOSE i \in 1..Len(AnimalOrder) : AnimalOrder[i] = a

\* a row before another in sort_values(by = ["animal_id", "date"])
RowBefore(r, q) ==
    \/ AnimalRank(r.animal_id) < AnimalRank(q.animal_id)
    \/ /\ r.animal_id = q.animal_id
       /\ DayOf(r.date) < DayOf(q.date)

RECURSIVE sort_values(_)
sort_values(df) ==
    IF df = <<>> THEN <<>>
    ELSE LET rest == sort_values(Tail(df))
             k    == Cardinality({i \in 1..Len(rest) : RowBefore(rest[i], df[1])})
         IN  SubSeq(rest, 1, k) \o <<df[1]>> \o SubSeq(rest, k + 1, Len(rest))

\* to_csv writes a date and a time of day as text; read_csv reads text back
to_csv(df) ==
    [i \in 1..Len(df) |->
        [df[i] EXCEPT !.date = DateStr(DayOf(@)),
                      !.start_time = IF @[1] = "time" THEN Str(@[2]) ELSE @]]

\* pd.to_datetime(appended_df["date"]).dt.date
to_date(df) == [i \in 1..Len(df) |-> [df[i] EXCEPT !.date = DateObj(DayOf(@))]]

\* lines 604-616: the fetched frame dj_df appended to the pre-saved frame
append_and_save(pre_saved_df, dj_df, dj, save_out, printed) ==
    IF dj_df.status = "raised"
    THEN [res |-> Raised(dj_df.exc, printed \o dj_df.out), file |-> file, dj |-> dj]
    ELSE LET appended_df == to_date(pre_saved_df \o dj_df.val)
         IN  [res  |-> Ok(sort_values(appended_df),
                          printed \o dj_df.out \o <<"Returning appended df">>
                              \o (IF save_out THEN <<"Saved out appended df">>
                                  ELSE <<>>)),
              file |-> IF save_out THEN CsvFile(to_csv(appended_df)) ELSE file,
              dj   |-> dj]

\* lines 599-616 with a pre-saved frame: fetch date_min..date_max, append, save
append_new_dates(pre_saved_df, animal_ids, date_min, date_max, save_out, verbose,
                 printed) ==
    append_and_save(
        pre_saved_df,
        create_daily_summary_from_dj(animal_ids, date_min, date_max, verbose),
        <<date_min, date_max>>, save_out, printed)

\* lines 618-624: the fetched frame dj_df with no pre-saved frame
save_and_return(dj_df, dj, save_out, printed) ==
    IF dj_df.status = "raised"
    THEN [res |-> Raised(dj_df.exc, printed \o dj_df.out), file |-> file, dj |-> dj]
    ELSE [res  |-> Ok(dj_df.val,
                      printed \o dj_df.out
                          \o (IF save_out THEN <<"Saved out dj df">> ELSE <<>>)
                          \o <<"Returning dj df">>),
          file |-> IF save_out THEN CsvFile(to_csv(dj_df.val)) ELSE file,
          dj   |-> dj]

\* lines 596-624 with no pre-saved frame
load_from_dj(animal_ids, date_min, date_max, save_out, verbose) ==
    save_and_return(
        create_daily_summary_from_dj(animal_ids, date_min, date_max, verbose),
        <<date_min, date_max>>, save_out,
        <<"No pre-saved df found, fetching from DataJoint.">>)

\* variant: the cache file is never consulted
lazy_load_daily_summary_df_refetch(animal_ids, date_min, date_max, save_out, verbose) ==
    load_from_dj(animal_ids, date_min, date_max, save_out, verbose)

\* the result, the file afterwards and the date range fetched from the database
\* (<<>> when the database is not queried)
lazy_load_daily_summary_df(animal_ids, date_min, date_max, save_out, verbose) ==
    IF ~file.exists
    THEN load_from_dj(animal_ids, date_min, date_max, save_out, verbose)
    ELSE LET pre_saved_df == file.rows
             stored       == {pre_saved_df[i].animal_id : i \in 1..Len(pre_saved_df)}
             excluded     == {animal_ids[i] : i \in 1..Len(animal_ids)} \ stored
             days         == {DayOf(pre_saved_df[i].date) : i \in 1..Len(pre_saved_df)}
             new_dates    == (date_min..date_max) \ (SetMin(days)..SetMax(days))
         IN  IF excluded # {}
             THEN [res |-> Raised("AssertionError", <<>>), file |-> file, dj |-> <<>>]
             ELSE IF new_dates = {}
             THEN [res  |-> Ok(SelectSeq(pre_saved_df,
                                         LAMBDA r : /\ DayOf(r.date) >= date_min
                                                    /\ DayOf(r.date) <= date_max),
                               <<"Loaded pre-saved df">>),
                   file |-> file,
                   dj   |-> <<>>]
             ELSE LET new_min == SetMin(new_dates)
                      new_max == SetMax(new_dates)
                  IN  IF new_max < date_max
                      THEN append_new_dates(
                               SelectSeq(pre_saved_df,
                                         LAMBDA r : DayOf(r.date) <= date_max),
                               animal_ids, date_min, new_max, save_out, verbose,
                               <<"partial dj load with new date max">>)
                      ELSE IF new_min > date_min
                      THEN append_new_dates(
                               SelectSeq(pre_saved_df,
                                         LAMBDA r : DayOf(r.date) >= date_min),
                               animal_ids, new_min, date_max, save_out, verbose,
                               <<"partial dj load with new date min">>)
                      ELSE [res  |-> Ok(pre_saved_df,
                                        <<"Only one-sided lazy loading can be performed.">>),
                            file |-> file,
                            dj   |-> <<>>]

-----------------------------------------------------------------------------
(* Inputs of the water and mass specification *)

MassVals == {80, 99, 100, 150}
PercentVals == {0, 44, 45}
VolumeVals == {0, 3125}
TotalvolVals == {1500, 2004}

MassRowSet(a, d, ms) ==
    {[ratname |-> a, date |-> d, mass |-> m, tech |-> "JB"] : m \in ms}

WaterRowSet(a, d, ps, vs) ==
    {[rat |-> a, date |-> d, percent_target |-> p, volume |-> v] : p \in ps, v \in vs}

RigwaterRowSet(a, d, vs) ==
    {[ratname |-> a, dateval |-> d, totalvol |-> v] : v \in vs}

\* rows of another animal or another day, which no query for ("R610", 2) may see
MassDecoys == {<<>>, <<[ratname |-> "R611", date |-> 2, mass |-> 150, tech |-> "KT"]>>}

WaterDecoys ==
    {<<>>,
     <<[rat |-> "R611", date |-> 2, percent_target |-> 50, volume |-> 4000]>>,
     <<[rat |-> "R610", date |-> 1, percent_target |-> 50, volume |-> 4000]>>}

RigwaterDecoys ==
    {<<>>,
     <<[ratname |-> "R611", dateval |-> 2, totalvol |-> 2500]>>,
     <<[ratname |-> "R610", dateval |-> 1, totalvol |-> 2500]>>}

\* the Mass table varies: 0..MaxDup rows on day 1 and on day 2
InitMassTables ==
    /\ Mass \in {p \o t \o d : p \in SeqsUpTo(MassRowSet("R610", 1, {80, 100, 150}), MaxDup),
                               t \in SeqsUpTo(MassRowSet("R610", 2, {80, 100, 150}), MaxDup),
                               d \in MassDecoys}
    /\ Water = <<>>
    /\ Rigwater = <<>>

\* the Water table varies: 0..MaxDup rows on day 2
InitWaterTables ==
    /\ Mass = <<>>
    /\ Water \in {d \o t : d \in WaterDecoys,
                            t \in SeqsUpTo(WaterRowSet("R610", 2, PercentVals, VolumeVals),
                                            MaxDup)}
    /\ Rigwater = <<>>

\* the Rigwater table varies: 0..MaxDup rows on day 2
InitRigwaterTables ==
    /\ Mass = <<>>
    /\ Water = <<>>
    /\ Rigwater \in {d \o t : d \in RigwaterDecoys,
                               t \in SeqsUpTo(RigwaterRowSet("R610", 2, TotalvolVals),
                                               MaxDup)}

\* all three tables hold rows
InitAllTables ==
    /\ Mass \in {p \o t : p \in SeqsUpTo(MassRowSet("R610", 1, {150}), 1),
                           t \in SeqsUpTo(MassRowSet("R610", 2, {80, 99, 100}), 1)}
    /\ Water \in {<<>>} \cup
                 {<<r>> : r \in WaterRowSet("R610", 2, {0, 45}, {3125})} \cup
                 {<<z, r>> : z \in WaterRowSet("R610", 2, {0}, {0}),
                             r \in WaterRowSet("R610", 2, {44}, {3125})}
    /\ Rigwater \in SeqsUpTo(RigwaterRowSet("R610", 2, {2004}), MaxDup)

InitFields ==
    /\ \/ InitMassTables
       \/ InitWaterTables
       \/ InitRigwaterTables
       \/ InitAllTables
    /\ Sessions = <<>>
    /\ file = NoFile
    /\ saves = 0
    /\ ret = NoCall

FieldAnimals == {"R610", "R611"}
FieldDates == {1, 2}

db == <<Mass, Water, Rigwater, Sessions>>

CallFetchDailyMass ==
    \E a \in FieldAnimals, d \in FieldDates, verbose \in BOOLEAN :
        /\ ret = NoCall
        /\ ret' = [op |-> "fetch_daily_mass", animal_id |-> a, date |-> d,
                   verbose |-> verbose, res |-> fetch_daily_mass(a, d, verbose)]
        /\ UNCHANGED <<db, file, saves>>

CallFetchDailyRestrictionTarget ==
    \E a \in FieldAnimals, d \in FieldDates :
        /\ ret = NoCall
        /\ ret' = [op |-> "fetch_daily_restriction_target", animal_id |-> a, date |-> d,
                   res |-> Ok(fetch_daily_restriction_target(a, d), <<>>)]
        /\ UNCHANGED <<db, file, saves>>

CallFetchPubVolume ==
    \E a \in FieldAnimals, d \in FieldDates :
        /\ ret = NoCall
        /\ ret' = [op |-> "fetch_pub_volume", animal_id |-> a, date |-> d,
                   res |-> Ok(fetch_pub_volume(a, d), <<>>)]
        /\ UNCHANGED <<db, file, saves>>

CallFetchRigVolume ==
    \E a \in FieldAnimals, d \in FieldDates, verbose \in BOOLEAN :
        /\ ret = NoCall
        /\ ret' = [op |-> "fetch_rig_volume", animal_id |-> a, date |-> d,
                   verbose |-> verbose,
                   res |-> LET r == fetch_rig_volume(a, d, verbose)
                           IN  Ok(r.val, r.out)]
        /\ UNCHANGED <<db, file, saves>>

CallFetchDailyWaterTarget ==
    \E mass \in MassVals, percent_target \in PercentVals, d \in {2},
       verbose \in BOOLEAN :
        /\ ret = NoCall
        /\ ret' = [op |-> "fetch_daily_water_target", mass |-> mass,
                   percent_target |-> percent_target, date |-> d, verbose |-> verbose,
                   res |-> LET r == fetch_daily_water_target(mass, percent_target,
                                                             d, verbose)
                           IN  Ok(r.val, r.out)]
        /\ UNCHANGED <<db, file, saves>>

CallFetchDailyWaterAndMassInfo ==
    \E a \in FieldAnimals, d \in FieldDates, verbose \in BOOLEAN :
        /\ ret = NoCall
        /\ ret' = [op |-> "fetch_daily_water_and_mass_info", animal_id |-> a,
                   date |-> d, verbose |-> verbose,
                   res |-> fetch_daily_water_and_mass_info(a, d, verbose)]
        /\ UNCHANGED <<db, file, saves>>

\* the call has returned and the caller goes on
Return ==
    /\ ret # NoCall
    /\ ret' = NoCall
    /\ UNCHANGED <<db, file, saves>>

NextFields ==
    \/ Return
    \/ CallFetchDailyMass
    \/ CallFetchDailyRestrictionTarget
    \/ CallFetchPubVolume
    \/ CallFetchRigVolume
    \/ CallFetchDailyWaterTarget
    \/ CallFetchDailyWaterAndMassInfo

SpecFields == InitFields /\ [][NextFields]_vars

-----------------------------------------------------------------------------
(* Inputs of the session specification *)

\* hostname, starttime, endtime: 9:00-10:00, 10:00-14:00, 10:00:00-10:00:10 and
\* a session whose end time is before its start time
SessionSlots ==
    {<<"Rig1", 32400, 36000>>, <<"Rig2", 36000, 50400>>,
     <<"Rig3", 36000, 36010>>, <<"Rig4", 36000, 32400>>}

\* total_correct, percent_violations, right_correct, left_correct
SessionPerfs == {<<80, 10, 90, 50>>, <<60, 20, 50, 90>>}

SessionTrials == {1, 50, 100, 250}

SessionRowSet(animals, dates, trials, slots, perfs) ==
    {[ratname            |-> a,
      sessiondate        |-> d,
      n_done_trials      |-> n,
      hostname           |-> s[1],
      starttime          |-> s[2],
      endtime            |-> s[3],
      total_correct      |-> p[1],
      percent_violations |-> p[2],
      right_correct      |-> p[3],
      left_correct       |-> p[4]] :
        a \in animals, d \in dates, n \in trials, s \in slots, p \in perfs}

InitSessions ==
    /\ Sessions \in SeqsUpTo(SessionRowSet({"R610", "R611"}, {1}, SessionTrials,
                                            SessionSlots, SessionPerfs),
                              MaxSessions)
    /\ Mass = <<>>
    /\ Water = <<>>
    /\ Rigwater = <<>>
    /\ file = NoFile
    /\ saves = 0
    /\ ret = NoCall

CallFetchDailySessionInfo ==
    \E k \in {<<"R610", 1>>, <<"R611", 1>>, <<"R610", 2>>} :
        /\ ret = NoCall
        /\ ret' = [op |-> "fetch_daily_session_info", animal_id |-> k[1],
                   date |-> k[2], res |-> fetch_daily_session_info(k[1], k[2])]
        /\ UNCHANGED <<db, file, saves>>

NextSessions ==
    \/ Return
    \/ CallFetchDailySessionInfo

SpecSessions == InitSessions /\ [][NextSessions]_vars

-----------------------------------------------------------------------------
(* Inputs of the build specification *)

BuildDays == 1..MaxDate

\* a session of 50 trials from 9:00 to 10:00, or a session of 1 trial
BuildSession(a, d, n) ==
    [ratname |-> a, sessiondate |-> d, n_done_trials |-> n, hostname |-> "Rig1",
     starttime |-> 32400, endtime |-> 36000, total_correct |-> 80,
     percent_violations |-> 10, right_correct |-> 90, left_correct |-> 50]

BuildMass(a, d) == [ratname |-> a, date |-> d, mass |-> 80, tech |-> "JB"]

\* the Sessions rows of "R610": sessions on the first and the last day, or a
\* session on day 2 and a session of one trial on the last day
BuildSessionTables ==
    {<<BuildSession("R610", 1, 50), BuildSession("R610", MaxDate, 50)>>,
     <<BuildSession("R610", 2, 50), BuildSession("R610", MaxDate, 1)>>}

\* "R610": on each day a Mass row or none.  "R611": no row at all, or a Mass
\* row on every day and a session on day 1.
InitBuild ==
    \E m \in [BuildDays -> BOOLEAN], sess \in BuildSessionTables, other \in BOOLEAN :
        /\ Mass = Concat([d \in BuildDays |->
                             IF m[d] THEN <<BuildMass("R610", d)>> ELSE <<>>])
                    \o (IF other THEN [d \in BuildDays |-> BuildMass("R611", d)]
                        ELSE <<>>)
        /\ Sessions = sess \o (IF other THEN <<BuildSession("R611", 1, 50)>> ELSE <<>>)
        /\ Water = <<[rat |-> "R610", date |-> 2, percent_target |-> 45,
                      volume |-> 3125]>>
        /\ Rigwater = <<[ratname |-> "R610", dateval |-> 2, totalvol |-> 2004]>>
        /\ file = NoFile
        /\ saves = 0
        /\ ret = NoCall

\* the lists of animal ids passed, one of them with a repeated id
BuildAnimalIds ==
    {<<"R610">>, <<"R610", "R611">>, <<"R611", "R610">>, <<"R610", "R610">>}

\* the lists of animal ids passed to the lazy load
LazyAnimalIds == {<<"R610">>, <<"R611", "R610">>}

CallCreateDailySummaryFromDj ==
    \E ids \in BuildAnimalIds, date_min \in BuildDays, date_max \in BuildDays :
        /\ ret = NoCall
        /\ date_min <= date_max
        /\ ret' = [op |-> "create_daily_summary_from_dj", animal_ids |-> ids,
                   date_min |-> date_min, date_max |-> date_max,
                   res |-> create_daily_summary_from_dj(ids, date_min, date_max, FALSE)]
        /\ UNCHANGED <<db, file, saves>>

\* the call returns r.res and leaves the file r.file
LazyLoadReturns(ids, date_min, date_max, save_out, r) ==
    /\ ret' = [op |-> "lazy_load_daily_summary_df", animal_ids |-> ids,
               date_min |-> date_min, date_max |-> date_max,
               save_out |-> save_out, before |-> file,
               res |-> r.res, dj |-> r.dj]
    /\ file' = r.file
    /\ saves' = IF save_out /\ r.dj # <<>> /\ r.res.status = "ok"
                THEN saves + 1 ELSE saves

CallLazyLoadDailySummaryDf ==
    \E ids \in LazyAnimalIds, date_min \in BuildDays, date_max \in BuildDays,
       save_out \in BOOLEAN :
        /\ ret = NoCall
        /\ date_min <= date_max
        /\ save_out => saves < MaxSaves
        /\ LazyLoadReturns(ids, date_min, date_max, save_out,
                           lazy_load_daily_summary_df(ids, date_min, date_max,
                                                      save_out, FALSE))
        /\ UNCHANGED db

ReturnBuild ==
    /\ ret # NoCall
    /\ ret' = NoCall
    /\ UNCHANGED <<db, file, saves>>

NextBuild ==
    \/ ReturnBuild
    \/ CallCreateDailySummaryFromDj
    \/ CallLazyLoadDailySummaryDf

SpecBuild == InitBuild /\ [][NextBuild]_vars

-----------------------------------------------------------------------------
(* Claims about the water and mass functions, checked under SpecFields *)

Abs(x) == IF x < 0 THEN -x ELSE x

\* the largest of the values f of the rows (at least one row)
IsMaxOf(v, rows, f) ==
    /\ \E i \in 1..Len(rows) : rows[i][f] = v
    /\ \A i \in 1..Len(rows) : rows[i][f] <= v

\* neither the day nor the day before has exactly one Mass row
MassMissingOrRepeated(a, d) ==
    Len(MassRows(a, d)) # 1 /\ Len(MassRows(a, d - 1)) # 1

\* C1: fetch_daily_mass returns the mass and the technician of the one Mass row
\* of (animal, date); with no row for (animal, date) it returns the mass of the
\* Mass row of the day before, with the technician NaN.
C1_MassMeasuredOrCarriedOver ==
    ret.op = "fetch_daily_mass" =>
        LET rows == MassRows(ret.animal_id, ret.date)
            prev == MassRows(ret.animal_id, ret.date - 1)
        IN  /\ Len(rows) = 1 =>
                /\ ret.res.status = "ok"
                /\ ret.res.val = <<rows[1].mass, Str(rows[1].tech)>>
            /\ (Len(rows) = 0 /\ Len(prev) = 1) =>
                /\ ret.res.status = "ok"
                /\ ret.res.val = <<prev[1].mass, NaN>>

C1_Witness ==
    /\ ret.op = "fetch_daily_mass"
    /\ Len(MassRows(ret.animal_id, ret.date)) = 0
    /\ Len(MassRows(ret.animal_id, ret.date - 1)) = 1
    /\ ret.res.status = "ok"
    /\ ret.res.val[2] = NaN

\* C3: fetch_daily_restriction_target and fetch_pub_volume return 0 for no Water
\* row of (animal, date), the row's value for one row and the largest value for
\* several rows, and never raise.
C3_WaterRowsResolved ==
    ret.op \in {"fetch_daily_restriction_target", "fetch_pub_volume"} =>
        LET rows == WaterRows(ret.animal_id, ret.date)
            f    == IF ret.op = "fetch_pub_volume" THEN "volume" ELSE "percent_target"
        IN  /\ ret.res.status = "ok"
            /\ Len(rows) = 0 => ret.res.val = 0
            /\ Len(rows) = 1 => ret.res.val = rows[1][f]
            /\ Len(rows) > 1 => IsMaxOf(ret.res.val, rows, f)

C3_Witness ==
    /\ ret.op = "fetch_daily_restriction_target"
    /\ Column(WaterRows(ret.animal_id, ret.date), "percent_target") = <<0, 45>>
    /\ ret.res.val = 45

\* C4: fetch_daily_water_target returns (p / 100) * mass rounded to 2 decimals,
\* with p the percent target or, when that is 0, 4 for a mass under 100 and 3
\* for a mass of 100 or more.
C4_WaterTarget ==
    ret.op = "fetch_daily_water_target" =>
        LET p     == IF ret.percent_target # 0 THEN ret.percent_target
                     ELSE IF ret.mass < 100 THEN 40 ELSE 30
            exact == p * ret.mass
            v     == ret.res.val
        IN  /\ ret.res.status = "ok"
            /\ v % 10 = 0
            /\ Abs(v - exact) <= 5
            /\ Abs(v - exact) = 5 => (v \div 10) % 2 = 0
            /\ (ret.percent_target = 0 /\ ret.mass = 80) => v = 3200
            /\ (ret.percent_target = 0 /\ ret.mass = 150) => v = 4500
            /\ (ret.percent_target = 0 /\ ret.mass = 100) => v = 3000

C4_Witness ==
    /\ ret.op = "fetch_daily_water_target"
    /\ ret.percent_target = 0
    /\ ret.mass = 100
    /\ ret.res.val = 3000

\* C10: the water_diff of a record is (pub_volume + rig_volume) - volume_target
\* of the same record, not rounded, and it is negative exactly when the intake
\* is under the target.
C10_WaterDiff ==
    (ret.op = "fetch_daily_water_and_mass_info" /\ ret.res.status = "ok") =>
        LET D == ret.res.val
        IN  /\ D.water_diff = (D.pub_volume + D.rig_volume) - D.volume_target
            /\ (D.water_diff < 0) <=> (D.pub_volume + D.rig_volume < D.volume_target)

C10_Witness ==
    /\ ret.op = "fetch_daily_water_and_mass_info"
    /\ ret.res.status = "ok"
    /\ ret.res.val.water_diff < 0
    /\ ret.res.val.water_diff % 10 # 0

-----------------------------------------------------------------------------
(* Claims about the session functions, checked under SpecSessions *)

\* the places in Sessions of the rows of (animal, date) with more than one trial
DoneSessions(animal_id, date) ==
    {i \in 1..Len(Sessions) : /\ Sessions[i].ratname = animal_id
                              /\ Sessions[i].sessiondate = date
                              /\ Sessions[i].n_done_trials > 1}

\* the sum of f[i] over the i of S
RECURSIVE SumOver(_, _)
SumOver(S, f) ==
    IF S = {} THEN 0
    ELSE LET i == CHOOSE j \in S : TRUE IN f[i] + SumOver(S \ {i}, f)

\* the cell c is the quotient num / den
IsQuotient(c, num, den) ==
    /\ c[1] = "rat"
    /\ c[3] > 0
    /\ c[2] * den = num * c[3]

SessionCall == ret.op = "fetch_daily_session_info"

\* C6 as stated: with at least one session trial_rate is n_done_trials /
\* train_dur_hrs rounded to 2 decimals, and it is the undefined sentinel NaN,
\* never an infinity, when the training duration is 0.
C6_TrialRateUndefinedAtZero ==
    (SessionCall /\ ret.res.status = "ok" /\ ret.res.val.n_sessions >= 1) =>
        LET D   == ret.res.val
            n   == D.n_done_trials[2]
            dur == D.train_dur_hrs[2]
        IN  /\ dur > 0 => D.trial_rate = Num(RoundHalfEven(10000 * n, dur))
            /\ dur < 0 => D.trial_rate = Num(-RoundHalfEven(10000 * n, -dur))
            /\ dur = 0 => D.trial_rate = NaN

\* C7: with N >= 1 sessions of trial counts t_i, hit_rate, viol_rate and
\* side_bias are the sums of t_i * total_correct_i, t_i * percent_violations_i
\* and t_i * (right_correct_i - left_correct_i), each divided by the sum of t_i;
\* side_bias is negative for a left bias and positive for a right bias.
C7_WeightedPerformance ==
    (SessionCall /\ ret.res.status = "ok" /\ ret.res.val.n_sessions >= 1) =>
        LET D    == ret.res.val
            S    == DoneSessions(ret.animal_id, ret.date)
            t    == [i \in S |-> Sessions[i].n_done_trials]
            h    == [i \in S |-> t[i] * Sessions[i].total_correct]
            v    == [i \in S |-> t[i] * Sessions[i].percent_violations]
            b    == [i \in S |-> t[i] * (Sessions[i].right_correct
                                          - Sessions[i].left_correct)]
        IN  /\ IsQuotient(D.hit_rate, SumOver(S, h), SumOver(S, t))
            /\ IsQuotient(D.viol_rate, SumOver(S, v), SumOver(S, t))
            /\ IsQuotient(D.side_bias, SumOver(S, b), SumOver(S, t))
            /\ (D.side_bias[2] < 0) <=> (SumOver(S, b) < 0)
            /\ (D.side_bias[2] > 0) <=> (SumOver(S, b) > 0)

\* sessions of 50 trials at 0.8 and 100 trials at 0.6: hit_rate is 100 / 150,
\* which is 0.667 to three decimals
C7_Witness ==
    /\ SessionCall
    /\ ret.res.status = "ok"
    /\ Column(SessionRows(ret.animal_id, ret.date), "n_done_trials") = <<50, 100>>
    /\ Column(SessionRows(ret.animal_id, ret.date), "total_correct") = <<80, 60>>
    /\ RoundHalfEven(10 * ret.res.val.hit_rate[2], ret.res.val.hit_rate[3]) = 667

\* C8: with N >= 1 rows of more than one trial, n_done_trials is the sum of
\* their trial counts, n_sessions is N, rigid is the hostname of the last of
\* them in the source's order and start_time is their earliest start time; rows
\* with 0 or 1 trials count for nothing.
C8_SessionAggregate ==
    (SessionCall /\ DoneSessions(ret.animal_id, ret.date) # {}) =>
        LET D    == ret.res.val
            S    == DoneSessions(ret.animal_id, ret.date)
            t    == [i \in S |-> Sessions[i].n_done_trials]
            last == CHOOSE i \in S : \A j \in S : j <= i
            tm   == D.start_time[2]
            secs == 3600 * tm.hour + 60 * tm.minute + tm.second
        IN  /\ ret.res.status = "ok"
            /\ D.n_done_trials = Num(SumOver(S, t))
            /\ D.n_sessions = Cardinality(S)
            /\ D.rigid = Str(Sessions[last].hostname)
            /\ D.start_time[1] = "time"
            /\ tm.minute \in 0..59 /\ tm.second \in 0..59
            /\ \E i \in S : Sessions[i].starttime = secs
            /\ \A i \in S : Sessions[i].starttime >= secs

\* two sessions of more than one trial, the later one listed first
C8_Witness ==
    /\ SessionCall
    /\ ret.res.status = "ok"
    /\ Column(SessionRows(ret.animal_id, ret.date), "hostname") = <<"Rig2", "Rig1">>
    /\ ret.res.val.rigid = Str("Rig1")
    /\ ret.res.val.n_sessions = 2
    /\ ret.res.val.start_time = <<"time", [hour |-> 9, minute |-> 0, second |-> 0]>>

-----------------------------------------------------------------------------
(* Claims about the daily summary table, checked under SpecBuild *)

CreateCall == ret.op = "create_daily_summary_from_dj"
LazyCall == ret.op = "lazy_load_daily_summary_df"
Returned == ret.op \in {"create_daily_summary_from_dj", "lazy_load_daily_summary_df"}
                /\ ret.res.status = "ok"

Elems(seq) == {seq[i] : i \in 1..Len(seq)}
NoRepeats(seq) == Cardinality(Elems(seq)) = Len(seq)

\* the days of date_min..date_max with a Sessions or a Mass row of the animal
EntryDays(a, date_min, date_max) ==
    {d \in date_min..date_max :
        \/ \E i \in 1..Len(Sessions) : Sessions[i].ratname = a /\ Sessions[i].sessiondate = d
        \/ \E i \in 1..Len(Mass) : Mass[i].ratname = a /\ Mass[i].date = d}

\* the places of the rows of (a, d) in a table
RowsOf(df, a, d) == {i \in 1..Len(df) : df[i].animal_id = a /\ DayOf(df[i].date) = d}

\* the Mass table has a row neither for (a, d) nor for the day before
MassMissing(a, d) == MassRows(a, d) = <<>> /\ MassRows(a, d - 1) = <<>>

\* C2: when the Mass table has a row neither for (animal, date) nor for the
\* day before, the call that builds the row of (animal, date) raises, and no
\* table returned and no file written holds a row of that (animal, date).
C2_MissingMassPropagates ==
    /\ CreateCall =>
           ((\E a \in Elems(ret.animal_ids) :
                \E d \in EntryDays(a, ret.date_min, ret.date_max) : MassMissing(a, d))
            => ret.res.status = "raised")
    /\ Returned =>
           \A i \in 1..Len(ret.res.val) :
               ~MassMissing(ret.res.val[i].animal_id, DayOf(ret.res.val[i].date))
    /\ \A i \in 1..Len(file.rows) :
           ~MassMissing(file.rows[i].animal_id, DayOf(file.rows[i].date))

C2_Witness ==
    /\ CreateCall
    /\ ret.res.status = "raised"
    /\ ret.res.exc = "DataJointError"
    /\ ret.animal_ids = <<"R610">>
    /\ \E d \in EntryDays("R610", ret.date_min, ret.date_max) : MassMissing("R610", d)

\* the mass and water fields of a row are populated
WaterAndMassPopulated(r) ==
    /\ \E i \in 1..Len(Mass) :
           /\ Mass[i].ratname = r.animal_id
           /\ Mass[i].date \in {DayOf(r.date), DayOf(r.date) - 1}
           /\ Mass[i].mass = r.mass
    /\ r.percent_target = fetch_daily_restriction_target(r.animal_id, DayOf(r.date))
    /\ r.pub_volume = fetch_pub_volume(r.animal_id, DayOf(r.date))
    /\ r.rig_volume >= 0
    /\ r.volume_target > 0
    /\ r.water_diff = r.pub_volume + r.rig_volume - r.volume_target

\* C5 as stated: for an (animal, date) with no session the row has the counts
\* n_done_trials and n_sessions 0 and start_time, train_dur_hrs, trial_rate,
\* hit_rate, viol_rate and side_bias NaN.
C5_NoSessionRowAsStated ==
    (CreateCall /\ ret.res.status = "ok") =>
        \A i \in 1..Len(ret.res.val) :
            LET r == ret.res.val[i]
            IN  SessionRows(r.animal_id, DayOf(r.date)) = <<>> =>
                    /\ r.n_done_trials = Num(0)
                    /\ r.n_sessions = 0
                    /\ r.start_time = NaN
                    /\ r.train_dur_hrs = NaN
                    /\ r.trial_rate = NaN
                    /\ r.hit_rate = NaN
                    /\ r.viol_rate = NaN
                    /\ r.side_bias = NaN

\* C5 (amended): for an (animal, date) with no session of more than one trial
\* no error is raised and the row has n_sessions 0 and train_dur_hrs 0, and
\* rigid, n_done_trials, start_time, trial_rate, hit_rate, viol_rate and
\* side_bias NaN; merged with the mass and water row of that date it is a
\* record with the mass and water fields populated.
C5_NoSessionRow ==
    (CreateCall /\ NoRepeats(ret.animal_ids)) =>
        \A k \in 1..Len(ret.animal_ids) :
            \A d \in EntryDays(ret.animal_ids[k], ret.date_min, ret.date_max) :
                (SessionRows(ret.animal_ids[k], d) = <<>> /\ ret.res.status = "ok") =>
                    /\ Cardinality(RowsOf(ret.res.val, ret.animal_ids[k], d)) = 1
                    /\ \A i \in RowsOf(ret.res.val, ret.animal_ids[k], d) :
                           LET r == ret.res.val[i]
                           IN  /\ r.n_sessions = 0
                               /\ r.train_dur_hrs = Num(0)
                               /\ r.rigid = NaN
                               /\ r.n_done_trials = NaN
                               /\ r.start_time = NaN
                               /\ r.trial_rate = NaN
                               /\ r.hit_rate = NaN
                               /\ r.viol_rate = NaN
                               /\ r.side_bias = NaN
                               /\ WaterAndMassPopulated(r)

\* a day on which the animal was only weighed
C5_Witness ==
    /\ CreateCall
    /\ ret.res.status = "ok"
    /\ \E i \in 1..Len(ret.res.val) :
           /\ ret.res.val[i].n_sessions = 0
           /\ ret.res.val[i].n_done_trials = NaN
           /\ ret.res.val[i].mass = 80
           /\ MassRows(ret.res.val[i].animal_id, DayOf(ret.res.val[i].date)) # <<>>
           /\ SessionRows_unfiltered(ret.res.val[i].animal_id,
                                      DayOf(ret.res.val[i].date)) = <<>>

\* a table has at most one row for each (animal_id, date)
UniqueRows(df) ==
    \A i, j \in 1..Len(df) :
        (df[i].animal_id = df[j].animal_id /\ DayOf(df[i].date) = DayOf(df[j].date))
            => i = j

\* a table has a row for each requested animal and each of its entry days
CompleteRows(df, animal_ids, date_min, date_max) ==
    \A a \in Elems(animal_ids) :
        \A d \in EntryDays(a, date_min, date_max) : RowsOf(df, a, d) # {}

\* C9 as stated: every table returned by create_daily_summary_from_dj or by
\* lazy_load_daily_summary_df has exactly one row for each requested animal and
\* each date on which it has a Sessions or Mass entry in the requested range,
\* and never two rows of the same (animal_id, date).
C9_OneRowPerAnimalDateAsStated ==
    Returned =>
        /\ UniqueRows(ret.res.val)
        /\ CompleteRows(ret.res.val, ret.animal_ids, ret.date_min, ret.date_max)

\* C9 (amended): for a list of animal ids without repeats, every table returned
\* by create_daily_summary_from_dj, and by lazy_load_daily_summary_df when there
\* is no cache file, has exactly one row for each requested animal and each date
\* on which it has a Sessions or Mass entry in the requested range; every table
\* returned by lazy_load_daily_summary_df over a cache file written by such
\* calls has at most one row for each (animal_id, date).
C9_OneRowPerAnimalDate ==
    (Returned /\ NoRepeats(ret.animal_ids)) =>
        /\ UniqueRows(ret.res.val)
        /\ (CreateCall \/ ~ret.before.exists) =>
               /\ CompleteRows(ret.res.val, ret.animal_ids, ret.date_min, ret.date_max)
               /\ \A i \in 1..Len(ret.res.val) :
                      /\ ret.res.val[i].animal_id \in Elems(ret.animal_ids)
                      /\ DayOf(ret.res.val[i].date) \in
                             EntryDays(ret.res.val[i].animal_id, ret.date_min,
                                       ret.date_max)

\* a lazy load that appended fetched rows to the rows of the cache file
C9_Witness ==
    /\ LazyCall
    /\ ret.res.status = "ok"
    /\ ret.before.exists
    /\ ret.dj # <<>>
    /\ Len(ret.res.val) > Len(ret.before.rows)
    /\ Len(ret.animal_ids) = 2
    /\ UniqueRows(ret.res.val)

-----------------------------------------------------------------------------
(* Claims about substituted values, checked under SpecFields *)

\* C11: fetch_rig_volume returns the totalvol of the one Rigwater row of
\* (animal, date); when fetch1 fails (no row, or several rows) it returns 0 and
\* does not raise, and the record of that day is built with rig_volume 0.
C11_RigVolumeOrZero ==
    /\ ret.op = "fetch_rig_volume" =>
           LET rows == RigwaterRows(ret.animal_id, ret.date)
           IN  /\ ret.res.status = "ok"
               /\ Len(rows) = 1 => ret.res.val = rows[1].totalvol
               /\ Len(rows) # 1 => ret.res.val = 0
    /\ ret.op = "fetch_daily_water_and_mass_info" =>
           LET rows == RigwaterRows(ret.animal_id, ret.date)
           IN  /\ ret.res.status = "raised" => ret.res.exc = "DataJointError"
                                                /\ MassMissingOrRepeated(ret.animal_id, ret.date)
               /\ ret.res.status = "ok" =>
                      /\ Len(rows) = 1 => ret.res.val.rig_volume = rows[1].totalvol
                      /\ Len(rows) # 1 => ret.res.val.rig_volume = 0

\* a record built on a day with two Rigwater rows
C11_Witness ==
    /\ ret.op = "fetch_daily_water_and_mass_info"
    /\ ret.res.status = "ok"
    /\ Len(RigwaterRows(ret.animal_id, ret.date)) = 2
    /\ ret.res.val.rig_volume = 0
    /\ ret.res.val.water_diff = ret.res.val.pub_volume - ret.res.val.volume_target

\* a value of the record of (a, d) is a default or a fallback
Substituted(a, d) ==
    \/ Len(MassRows(a, d)) # 1
    \/ Len(WaterRows(a, d)) # 1
    \/ Len(RigwaterRows(a, d)) # 1
    \/ fetch_daily_restriction_target(a, d) = 0

\* C12: whenever a default or fallback value is substituted while the record of
\* a day is built (the mass of the day before, percent target 0 or pub volume 0
\* for no Water row, the 4%/3% minimum, rig volume 0, the maximum of several
\* rows), a warning message is emitted, whatever the value of verbose.
C12_SubstitutionWarned ==
    (ret.op = "fetch_daily_water_and_mass_info" /\ ret.res.status = "ok") =>
        (Substituted(ret.animal_id, ret.date) => ret.res.out # <<>>)

-----------------------------------------------------------------------------
(* Claims about the order and the source of the rows, checked under SpecBuild *)

\* the rows of a table are in ascending order of (animal_id, date)
SortedRows(df) == \A i, j \in 1..Len(df) : i < j => ~RowBefore(df[j], df[i])

\* C13: the rows of every table returned by create_daily_summary_from_dj or
\* lazy_load_daily_summary_df are sorted by (animal_id, date) ascending, for
\* every list of animal ids and on every return path.
C13_ReturnedSorted == (Returned /\ NoRepeats(ret.animal_ids)) => SortedRows(ret.res.val)

\* a lazy load that found a cache file
CachedCall == LazyCall /\ ret.before.exists

\* the first and the last day stored in the cache file of the call
StoredMin == SetMin({DayOf(ret.before.rows[i].date) : i \in 1..Len(ret.before.rows)})
StoredMax == SetMax({DayOf(ret.before.rows[i].date) : i \in 1..Len(ret.before.rows)})

\* every requested animal has a row in the cache file of the call
Covered ==
    \A a \in Elems(ret.animal_ids) :
        \E i \in 1..Len(ret.before.rows) : ret.before.rows[i].animal_id = a

\* the request lies within the stored range
WithinStored == ret.date_min >= StoredMin /\ ret.date_max <= StoredMax
\* the request overlaps the stored range and extends it on the early side only
ExtendsLow == ret.date_min < StoredMin /\ StoredMin <= ret.date_max
                  /\ ret.date_max <= StoredMax
\* the request overlaps the stored range and extends it on the late side only
ExtendsHigh == StoredMin <= ret.date_min /\ ret.date_min <= StoredMax
                   /\ StoredMax < ret.date_max

\* the stored rows of the call with a day in lo..hi
StoredWithin(lo, hi) ==
    SelectSeq(ret.before.rows, LAMBDA r : DayOf(r.date) >= lo /\ DayOf(r.date) <= hi)

\* the number of (animal, day) entries of the requested animals in lo..hi
RECURSIVE EntryCount(_, _, _)
EntryCount(ids, lo, hi) ==
    IF ids = <<>> THEN 0
    ELSE Cardinality(EntryDays(Head(ids), lo, hi)) + EntryCount(Tail(ids), lo, hi)

\* the returned table is the stored rows of lo..hi and one fetched row for each
\* entry of the requested animals in flo..fhi
StoredPlusFetched(lo, hi, flo, fhi) ==
    LET val == ret.res.val
        old == StoredWithin(lo, hi)
    IN  /\ Len(val) = Len(old) + EntryCount(ret.animal_ids, flo, fhi)
        /\ \A k \in 1..Len(old) :
               \E i \in 1..Len(val) : val[i] = [old[k] EXCEPT !.date = DateObj(DayOf(@))]
        /\ \A a \in Elems(ret.animal_ids) :
               \A d \in EntryDays(a, flo, fhi) :
                   \E i \in RowsOf(val, a, d) : val[i].date = DateObj(d)

-----------------------------------------------------------------------------
(* Protocol data to data frame (pd_to_df.py) *)

\* In this part a Sessions row is [ratname, sessid, sessiondate, n_done_trials,
\* protocol_data]; protocol_data is the dictionary transform_blob gives for the
\* blob: one array per field, as sequences. sides is a string, kept as
\* [chars |-> <<"l", "r", ...>>]; dms_type holds numbers.

MAP_SA_TO_SB == (12000 :> 3000) @@ (3000 :> 12000)

\* the value the dispatcher reports for a crashed trial
CrashResult == 5
\* the value of a violation trial
ViolationResult == 3

Bool(b) == <<"bool", b>>

\* the smallest element of a set of numbers, 0 for the empty set
FirstOf(S) == IF S = {} THEN 0 ELSE CHOOSE x \in S : \A y \in S : x <= y

\* what a repair step leaves: the dictionary as modified in place, and the
\* exception raised, if any
Repaired(d, printed) == [dict |-> d, status |-> "ok", out |-> printed]
Failed(d, e, printed) == [dict |-> d, status |-> "raised", exc |-> e, out |-> printed]

\* list(protocol_dict["sides"])
sides_list(d) == [d EXCEPT !.sides = @.chars]

\* dms_type popped, stored as is_match and cast to bool
rename_dms_type(d) ==
    IF "dms_type" \in DOMAIN d
    THEN [k \in (DOMAIN d \ {"dms_type"}) \cup {"is_match"} |->
             IF k = "is_match"
             THEN [i \in 1..Len(d.dms_type) |-> d.dms_type[i] # 0]
             ELSE d[k]]
    ELSE d

\* the first trial of the loop of lines 227-232 that raises, 0 when none does
sb_loop_failure(sa, sb, match) ==
    FirstOf({t \in 1..Len(sa) :
                \/ t > Len(match)
                \/ match[t] /\ t > Len(sb)
                \/ ~match[t] /\ sa[t] \notin DOMAIN MAP_SA_TO_SB
                \/ ~match[t] /\ t > Len(sb)})

\* sb after the loop has run over the trials before trial stop
sb_loop(sa, sb, match, stop) ==
    [i \in 1..Len(sb) |->
        IF i < stop /\ i <= Len(sa)
        THEN (IF match[i] THEN sa[i] ELSE MAP_SA_TO_SB[sa[i]])
        ELSE sb[i]]

\* variant: sa of a non-match trial that the table does not have is copied to sb
truncate_sb_length_copy_unknown(d) ==
    IF "is_match" \notin DOMAIN d
    THEN Failed(d, "KeyError", <<>>)
    ELSE LET sa    == d.sa
             sb    == d.sb
             match == d.is_match
             value == [i \in 1..Len(sa) |->
                          IF i <= Len(match) /\ ~match[i] /\ sa[i] \in DOMAIN MAP_SA_TO_SB
                          THEN MAP_SA_TO_SB[sa[i]] ELSE sa[i]]
             t     == FirstOf({i \in 1..Len(sa) : i > Len(match) \/ i > Len(sb)})
             fixed == [i \in 1..Len(sb) |->
                          IF i <= Len(sa) /\ (t = 0 \/ i < t) THEN value[i] ELSE sb[i]]
         IN  IF t = 0
             THEN Repaired([d EXCEPT !.sb = SubSeq(fixed, 1, Len(fixed) - 1)], <<>>)
             ELSE Failed([d EXCEPT !.sb = fixed], "IndexError", <<>>)

\* variant: the extra entry is removed and the values are left as they are
truncate_sb_length_only(d) ==
    Repaired([d EXCEPT !.sb = SubSeq(@, 1, Len(@) - 1)], <<>>)

\* sb is a numpy array: the loop writes into the array of the dictionary
truncate_sb_length(d) ==
    IF "is_match" \notin DOMAIN d
    THEN Failed(d, "KeyError", <<>>)
    ELSE LET sa    == d.sa
             sb    == d.sb
             match == d.is_match
             t     == sb_loop_failure(sa, sb, match)
         IN  IF t = 0
             THEN LET fixed == sb_loop(sa, sb, match, Len(sa) + 1)
                  IN  Repaired([d EXCEPT !.sb = SubSeq(fixed, 1, Len(fixed) - 1)], <<>>)
             ELSE Failed([d EXCEPT !.sb = sb_loop(sa, sb, match, t)],
                         IF t > Len(match) THEN "IndexError"
                         ELSE IF ~match[t] /\ sa[t] \notin DOMAIN MAP_SA_TO_SB
                         THEN "AssertionError"
                         ELSE "IndexError",
                         <<>>)

\* variant: the padding starts one place early
fill_result_post_crash_early(d) ==
    IF Len(d.result) > Len(d.sa)
    THEN Failed(d, "ValueError", <<>>)
    ELSE Repaired([d EXCEPT !.result =
                       [i \in 1..Len(d.sa) |->
                           IF i < Len(d.result) THEN d.result[i] ELSE CrashResult]],
                  <<>>)

\* np.ones(len(sa)) * 5 with results written over its first len(results)
\* places; results longer than sa do not fit and numpy raises ValueError
fill_result_post_crash(d) ==
    IF Len(d.result) > Len(d.sa)
    THEN Failed(d, "ValueError", <<>>)
    ELSE Repaired([d EXCEPT !.result =
                       [i \in 1..Len(d.sa) |->
                           IF i <= Len(d.result) THEN d.result[i] ELSE CrashResult]],
                  <<>>)

\* len(set(map(len, protocol_dict.values())))
n_unique_lens(d) == Cardinality({Len(d[k]) : k \in DOMAIN d})

\* variant: the assertion looks at sa, sb and result only
repair_result_and_check_three(r) ==
    IF r.status = "raised" THEN r
    ELSE LET f == IF Len(r.dict.sa) # Len(r.dict.result)
                  THEN fill_result_post_crash(r.dict)
                  ELSE Repaired(r.dict, <<>>)
         IN  IF f.status = "raised" THEN f
             ELSE IF Cardinality({Len(f.dict.sa), Len(f.dict.sb), Len(f.dict.result)}) # 1
             THEN Failed(f.dict, "AssertionError", r.out)
             ELSE Repaired(f.dict, r.out)

\* lines 189-197, given what the sb repair left
repair_result_and_check(r) ==
    IF r.status = "raised" THEN r
    ELSE LET f == IF Len(r.dict.sa) # Len(r.dict.result)
                  THEN fill_result_post_crash(r.dict)
                  ELSE Repaired(r.dict, <<>>)
         IN  IF f.status = "raised" THEN f
             ELSE IF n_unique_lens(f.dict) # 1
             THEN Failed(f.dict, "AssertionError", r.out)
             ELSE Repaired(f.dict, r.out)

\* lines 189-190, on the dictionary with its sides and is_match in place
repair_sb(d) ==
    IF Len(d.sa) # Len(d.sb) THEN truncate_sb_length(d) ELSE Repaired(d, <<>>)

\* the body of the loop of pd_prepare_dicts_for_df for one session
prepare_dict(protocol_dict) ==
    repair_result_and_check(repair_sb(rename_dms_type(sides_list(protocol_dict))))

\* the dictionaries as the call leaves them (it modifies them in place and
\* stops at the first session that raises) and the exception, if any
prepared_upto(protocol_dicts, P, failed) ==
    [dicts  |-> [i \in 1..Len(protocol_dicts) |->
                    IF failed = 0 \/ i <= failed THEN P[i].dict ELSE protocol_dicts[i]],
     status |-> IF failed = 0 THEN "ok" ELSE "raised",
     exc    |-> IF failed = 0 THEN "" ELSE P[failed].exc]

pd_prepare_dicts_for_df(protocol_dicts) ==
    LET P == [i \in 1..Len(protocol_dicts) |-> prepare_dict(protocol_dicts[i])]
    IN  prepared_upto(protocol_dicts, P,
                      FirstOf({i \in 1..Len(protocol_dicts) : P[i].status = "raised"}))

\* a data frame of trials: its columns and its rows in index order
Frame(columns, rows) == [columns |-> columns, rows |-> rows]

\* the columns clean_pd_df adds to those of the dictionary
AddedColumns == {"trial", "animal_id", "date", "sess_id", "sound_pair", "violations"}

\* the row of started trial i of a session after clean_pd_df: sa and sb in kHz
\* (the Hz value over 1000), sound_pair the pair of both, violations 1 for
\* result 3; the values of the integer columns are whole numbers and astype
\* leaves them as they are
trial_row(d, i, animal_id, sess_id, date) ==
    [k \in DOMAIN d \cup AddedColumns |->
        CASE k = "trial" -> i
          [] k = "animal_id" -> animal_id
          [] k = "date" -> DateObj(date)
          [] k = "sess_id" -> sess_id
          [] k = "sa" -> Rat(d.sa[i], 1000)
          [] k = "sb" -> Rat(d.sb[i], 1000)
          [] k = "sound_pair" -> <<Rat(d.sa[i], 1000), Rat(d.sb[i], 1000)>>
          [] k = "violations" -> IF d.result[i] = ViolationResult THEN 1 ELSE 0
          [] k = "is_match" -> Bool(d.is_match[i])
          [] OTHER -> d[k][i]]

\* the started trials that clean_pd_df keeps, in order
kept_trials(result) ==
    SelectSeq([i \in 1..Len(result) |-> i], LAMBDA i : result[i] # CrashResult)

\* variant: the trial column is made after the rows with result 5 are dropped
clean_pd_df_renumbered(d, animal_id, sess_id, date) ==
    LET kept == kept_trials(d.result)
    IN  Frame(DOMAIN d \cup AddedColumns,
              [j \in 1..Len(kept) |->
                  [trial_row(d, kept[j], animal_id, sess_id, date) EXCEPT !.trial = j]])

\* variant: no trial is dropped
clean_pd_df_keep_all(d, animal_id, sess_id, date) ==
    Frame(DOMAIN d \cup AddedColumns,
          [j \in 1..Len(d.result) |-> trial_row(d, j, animal_id, sess_id, date)])

\* the frame of one session: the trial column is made from the started trials,
\* then the rows with result 5 are dropped
clean_pd_df(d, animal_id, sess_id, date) ==
    LET kept == kept_trials(d.result)
    IN  Frame(DOMAIN d \cup AddedColumns,
              [j \in 1..Len(kept) |-> trial_row(d, kept[j], animal_id, sess_id, date)])

\* a row with NaN in the columns it lacks
pad_row(r, columns) == [k \in columns |-> IF k \in DOMAIN r THEN r[k] ELSE NaN]

\* pd.concat(frames, ignore_index=True): the union of the columns
concat_frames(frames) ==
    LET columns == UNION {frames[i].columns : i \in 1..Len(frames)}
        rows    == Concat([i \in 1..Len(frames) |-> frames[i].rows])
    IN  Frame(columns, [i \in 1..Len(rows) |-> pad_row(rows[i], columns)])

\* pd.DataFrame.from_dict raises ValueError for arrays of differing length
make_protocol_df(protocol_dicts, animal_id, sess_ids, dates) ==
    IF \E isess \in 1..Len(sess_ids) : n_unique_lens(protocol_dicts[isess]) # 1
    THEN Raised("ValueError", <<>>)
    ELSE Ok(concat_frames([isess \in 1..Len(sess_ids) |->
                              clean_pd_df(protocol_dicts[isess], animal_id,
                                          sess_ids[isess], dates[isess])]),
            <<>>)

\* the Sessions rows of an animal with neither 0 nor 1 done trials
drop_empty_sessions(animal_id) ==
    SelectSeq(Sessions, LAMBDA r : /\ r.ratname = animal_id
                                   /\ r.n_done_trials # 0
                                   /\ r.n_done_trials # 1)

\* blobs[0] of an empty list raises IndexError
convert_to_dict(rows) ==
    IF rows = <<>> THEN Raised("IndexError", <<>>)
    ELSE Ok(Column(rows, "protocol_data"), <<>>)

\* lines 85-92, given the frame of the animal or what make_protocol_df raised
append_and_print(protocol_df) ==
    IF protocol_df.status = "raised" THEN protocol_df
    ELSE Ok(protocol_df.val, <<"fetched sessions">>)

\* lines 79-92, given the kept Sessions rows and what the preparation left
animal_protocol_df(animal_id, rows, prepared) ==
    IF prepared.status = "raised" THEN Raised(prepared.exc, <<>>)
    ELSE append_and_print(make_protocol_df(prepared.dicts, animal_id,
                                           Column(rows, "sessid"),
                                           Column(rows, "sessiondate")))

\* lines 79-92, given the kept Sessions rows and their dictionaries
prepare_and_make(animal_id, rows, protocol_dicts) ==
    IF protocol_dicts.status = "raised" THEN protocol_dicts
    ELSE animal_protocol_df(animal_id, rows,
                            pd_prepare_dicts_for_df(protocol_dicts.val))

\* the body of the loop of fetch_latest_training_data for one animal
fetch_animal(animal_id) ==
    prepare_and_make(animal_id, drop_empty_sessions(animal_id),
                     convert_to_dict(drop_empty_sessions(animal_id)))

\* lines 94-97, given what the loop did for each animal
concat_protocol_dfs(A, failed) ==
    IF failed # 0 THEN A[failed]
    ELSE Ok(concat_frames([i \in 1..Len(A) |-> A[i].val]),
            Concat([i \in 1..Len(A) |-> A[i].out]))

fetch_latest_training_data(animal_ids) ==
    LET A == [i \in 1..Len(animal_ids) |-> fetch_animal(animal_ids[i])]
    IN  concat_protocol_dfs(A, FirstOf({i \in 1..Len(A) : A[i].status = "raised"}))

-----------------------------------------------------------------------------
(* Inputs of the protocol data specification *)

\* most started trials of the session whose arrays vary
MaxTrials == 3

\* started trials of the sessions of the two worked examples
ExampleTrials == 10

Ones(n) == [i \in 1..n |-> 1]
Zeros(n) == [i \in 1..n |-> 0]
Alternate(n) == [i \in 1..n |-> i % 2]

\* sa: the two known levels in turn, or an unknown level on the last trial
SaLevels(n) ==
    {[i \in 1..n |-> IF i % 2 = 1 THEN 12000 ELSE 3000],
     [i \in 1..n |-> IF i = n THEN 5000 ELSE 3000]}

\* sb as logged: a value of its own at every place
SbLogged(n) == [i \in 1..n |-> 7000 + i]

\* result codes as logged
ResultCodes(n) ==
    {[i \in 1..n |-> <<1, 3, 2>>[((i - 1) % 3) + 1]],
     [i \in 1..n |-> <<5, 1, 3>>[((i - 1) % 3) + 1]]}

\* the fields every session has
CommonFields(n, sa, sb, result, hits) ==
    [sides     |-> [chars |-> [i \in 1..n |-> IF i % 2 = 1 THEN "l" ELSE "r"]],
     sa        |-> sa,
     sb        |-> sb,
     result    |-> result,
     hits      |-> hits,
     temperror |-> Zeros(n),
     helper    |-> Zeros(n),
     stage     |-> Ones(n)]

\* a session of the DMS protocol, with dms_type
DmsDict(n, sa, sb, result, hits, dms_type) ==
    [k \in DOMAIN CommonFields(n, sa, sb, result, hits) \cup {"dms_type"} |->
        IF k = "dms_type" THEN dms_type
        ELSE CommonFields(n, sa, sb, result, hits)[k]]

\* the dictionaries of sessions of n started trials
VariedDicts(n) ==
    LET sbs  == {SbLogged(m) : m \in (n - 1)..(n + 2)}
        ress == UNION {ResultCodes(m) : m \in (n - 2)..(n + 1)}
        hits == {Alternate(m) : m \in n..(n + 1)}
        dms  == {Ones(n), Zeros(n), Alternate(n), Ones(n - 1)}
    IN  {CommonFields(n, sa, sb, r, h) :
            sa \in SaLevels(n), sb \in sbs, r \in ress, h \in hits}
        \cup
        {DmsDict(n, sa, sb, r, h, t) :
            sa \in SaLevels(n), sb \in sbs, r \in ress, h \in hits, t \in dms}

\* sa of 10 entries, sb of 11, is-match true on every trial; and a result
\* array of 8 entries against sa of 10
ExampleDicts ==
    LET n  == ExampleTrials
        sa == [i \in 1..n |-> IF i % 2 = 1 THEN 12000 ELSE 3000]
    IN  {DmsDict(n, sa, SbLogged(n + 1), [i \in 1..n |-> 1], Ones(n), Ones(n)),
         DmsDict(n, sa, sa, [i \in 1..(n - 2) |-> 1], Ones(n), Ones(n))}

SessionRow(animal, sessid, date, n_done_trials, protocol_data) ==
    [ratname |-> animal, sessid |-> sessid, sessiondate |-> date,
     n_done_trials |-> n_done_trials, protocol_data |-> protocol_data]

\* a session with nothing to repair
GoodSession(animal, sessid, date) ==
    SessionRow(animal, sessid, date, 2,
               DmsDict(2, <<12000, 3000>>, <<12000, 12000>>, <<1, 5>>,
                       <<1, 0>>, <<1, 0>>))

\* a session of another protocol, without dms_type
PlainSession(animal, sessid, date) ==
    SessionRow(animal, sessid, date, 2,
               CommonFields(2, <<12000, 3000>>, <<3000, 3000>>, <<2, 3>>, <<0, 0>>))

\* a session of one done trial, with arrays that no repair makes equal
EmptySession(animal, sessid, date) ==
    SessionRow(animal, sessid, date, 1,
               CommonFields(1, <<12000>>, <<3000, 3000, 3000>>, <<>>, <<1>>))

\* the tables: the varied session of R500 alone, or among other sessions
TrialTables(v) ==
    {<<v>>,
     <<GoodSession("R500", 101, 1), v>>,
     <<v, GoodSession("R500", 103, 3)>>,
     <<v, PlainSession("R501", 201, 2)>>,
     <<EmptySession("R500", 100, 1), v, GoodSession("R501", 201, 2)>>}

InitTrials ==
    /\ \E d \in ExampleDicts \cup UNION {VariedDicts(n) : n \in 2..MaxTrials} :
           Sessions \in TrialTables(SessionRow("R500", 102, 2, Len(d.sa), d))
    /\ Mass = <<>>
    /\ Water = <<>>
    /\ Rigwater = <<>>
    /\ file = NoFile
    /\ saves = 0
    /\ ret = NoCall

TrialAnimals == {"R500", "R501"}
TrialAnimalIds == {<<"R500">>, <<"R501">>, <<"R500", "R501">>, <<"R501", "R500">>}

\* pd_prepare_dicts_for_df on the dictionaries of the kept sessions of an animal
CallPdPrepareDictsForDf ==
    \E a \in TrialAnimals :
        /\ ret = NoCall
        /\ drop_empty_sessions(a) # <<>>
        /\ ret' = [op |-> "pd_prepare_dicts_for_df", animal_id |-> a,
                   res |-> pd_prepare_dicts_for_df(
                               convert_to_dict(drop_empty_sessions(a)).val)]
        /\ UNCHANGED <<db, file, saves>>

CallFetchLatestTrainingData ==
    \E ids \in TrialAnimalIds :
        /\ ret = NoCall
        /\ ret' = [op |-> "fetch_latest_training_data", animal_ids |-> ids,
                   res |-> fetch_latest_training_data(ids)]
        /\ UNCHANGED <<db, file, saves>>

ReturnTrials ==
    /\ ret # NoCall
    /\ ret' = NoCall
    /\ UNCHANGED <<db, file, saves>>

NextTrials ==
    \/ ReturnTrials
    \/ CallPdPrepareDictsForDf
    \/ CallFetchLatestTrainingData

SpecTrials == InitTrials /\ [][NextTrials]_vars

-----------------------------------------------------------------------------
(* Claims about the protocol data functions, checked under SpecTrials *)

PrepareCall == ret.op = "pd_prepare_dicts_for_df"
FetchCall == ret.op = "fetch_latest_training_data"

\* the dictionaries of the kept sessions of an animal, as fetched
RawDicts(a) == Column(drop_empty_sessions(a), "protocol_data")

\* the loop of pd_prepare_dicts_for_df reaches session k: no session before
\* it raised
Reached(raw, k) == \A j \in 1..(k - 1) : prepare_dict(raw[j]).status = "ok"

\* is-match of trial i of a dictionary as fetched
IsMatch(d, i) == d.dms_type[i] # 0

\* sb is one entry longer than sa, there is an is-match entry for every trial,
\* and the table has an entry for sa of every non-match trial
SbOneLonger(d) ==
    /\ Len(d.sb) = Len(d.sa) + 1
    /\ "dms_type" \in DOMAIN d
    /\ Len(d.dms_type) = Len(d.sa)
    /\ \A i \in 1..Len(d.sa) : ~IsMatch(d, i) => d.sa[i] \in DOMAIN MAP_SA_TO_SB

\* C14: pd_prepare_dicts_for_df on a session whose sb is one entry longer than
\* sa and which has the is-match field leaves sb as long as sa, with
\* sb[i] = sa[i] on a match trial and sb[i] = MAP_SA_TO_SB[sa[i]] on a
\* non-match trial.
C14_SbRepaired ==
    PrepareCall =>
        LET raw == RawDicts(ret.animal_id)
        IN  \A k \in 1..Len(raw) :
                (SbOneLonger(raw[k]) /\ Reached(raw, k)) =>
                    LET sb == ret.res.dicts[k].sb
                        sa == raw[k].sa
                    IN  /\ ret.res.dicts[k].sa = sa
                        /\ Len(sb) = Len(sa)
                        /\ \A i \in 1..Len(sa) :
                               sb[i] = IF IsMatch(raw[k], i) THEN sa[i]
                                       ELSE MAP_SA_TO_SB[sa[i]]

\* sa of 10 entries, sb of 11, every trial a match
C14_Witness ==
    /\ PrepareCall
    /\ ret.res.status = "ok"
    /\ \E k \in 1..Len(RawDicts(ret.animal_id)) :
           /\ SbOneLonger(RawDicts(ret.animal_id)[k])
           /\ Len(RawDicts(ret.animal_id)[k].sa) = ExampleTrials
           /\ \A i \in 1..ExampleTrials : IsMatch(RawDicts(ret.animal_id)[k], i)
           /\ Len(ret.res.dicts[k].sb) = ExampleTrials
           /\ ret.res.dicts[k].sb = RawDicts(ret.animal_id)[k].sa

\* C15: for a session whose sa and sb differ in length (here sb is the longer
\* by one) and which has no is-match field, the repair removes the last sb
\* entry, leaves the other sb values as they are and does not raise.
C15_SbTruncatedWithoutIsMatch ==
    PrepareCall =>
        LET raw == RawDicts(ret.animal_id)
        IN  \A k \in 1..Len(raw) :
                (/\ "dms_type" \notin DOMAIN raw[k]
                 /\ Len(raw[k].sb) = Len(raw[k].sa) + 1
                 /\ Reached(raw, k)) =>
                    /\ ret.res.dicts[k].sb = SubSeq(raw[k].sb, 1, Len(raw[k].sb) - 1)
                    /\ ret.res.status = "raised" => ret.res.exc # "KeyError"

\* the sb repair of a dictionary as fetched does not raise
SbStepPasses(d) == repair_sb(rename_dms_type(sides_list(d))).status = "ok"

\* the Sessions row of a session id
SessionOf(sessid) == CHOOSE r \in Elems(Sessions) : r.sessid = sessid

\* C16: for a session whose result array is shorter than sa, the result repair
\* leaves a result array of len(sa) entries, the first len(result) of them the
\* original values and all later ones 5; the padded trials are not among the
\* rows fetch_latest_training_data returns.
C16_ResultPadded ==
    /\ PrepareCall =>
           LET raw == RawDicts(ret.animal_id)
           IN  \A k \in 1..Len(raw) :
                   (/\ Len(raw[k].result) < Len(raw[k].sa)
                    /\ Reached(raw, k)
                    /\ SbStepPasses(raw[k])) =>
                       LET result == ret.res.dicts[k].result
                       IN  /\ Len(result) = Len(raw[k].sa)
                           /\ \A i \in 1..Len(result) :
                                  result[i] = IF i <= Len(raw[k].result)
                                              THEN raw[k].result[i] ELSE CrashResult
    /\ (FetchCall /\ ret.res.status = "ok") =>
           \A i \in 1..Len(ret.res.val.rows) :
               LET r == ret.res.val.rows[i]
               IN  r.trial <= Len(SessionOf(r.sess_id).protocol_data.result)

\* a result array of 8 entries against sa of 10: 8 rows are returned
C16_Witness ==
    /\ FetchCall
    /\ ret.res.status = "ok"
    /\ \E s \in Elems(Sessions) :
           /\ Len(s.protocol_data.sa) = ExampleTrials
           /\ Len(s.protocol_data.result) = ExampleTrials - 2
           /\ Cardinality({i \in 1..Len(ret.res.val.rows) :
                              ret.res.val.rows[i].sess_id = s.sessid})
                  = ExampleTrials - 2

\* the kept sessions of the requested animals
RequestedSessions ==
    {r \in Elems(Sessions) : /\ r.ratname \in Elems(ret.animal_ids)
                             /\ r.n_done_trials \notin {0, 1}}

\* C17: trial rows are built for a session only if every field array of it has
\* the same length after the repairs: pd_prepare_dicts_for_df returns only with
\* arrays of one length in every dictionary, and fetch_latest_training_data
\* returns rows only if every kept session of the requested animals leaves the
\* repairs with arrays of one length; otherwise it raises.
C17_UniformLengthOrFatal ==
    /\ (PrepareCall /\ ret.res.status = "ok") =>
           \A k \in 1..Len(ret.res.dicts) : n_unique_lens(ret.res.dicts[k]) = 1
    /\ PrepareCall =>
           LET raw == RawDicts(ret.animal_id)
           IN  (\E k \in 1..Len(raw) :
                    /\ Reached(raw, k)
                    /\ n_unique_lens(ret.res.dicts[k]) # 1)
               => ret.res.status = "raised"
    /\ (FetchCall /\ ret.res.status = "ok") =>
           \A s \in RequestedSessions :
               LET d == s.protocol_data
                   n == Len(d.sa)
               IN  /\ Len(d.result) <= n
                   /\ Len(d.sb) \in {n, n + 1}
                   /\ \A k \in DOMAIN d \ {"sb", "result", "sides"} : Len(d[k]) = n
                   /\ Len(d.sides.chars) = n

\* a call that raised on arrays that the repairs left unequal
C17_Witness ==
    /\ PrepareCall
    /\ ret.res.status = "raised"
    /\ ret.res.exc = "AssertionError"
    /\ \E k \in 1..Len(ret.res.dicts) :
           /\ Len(ret.res.dicts[k].sa) = Len(ret.res.dicts[k].sb)
           /\ Len(ret.res.dicts[k].sa) = Len(ret.res.dicts[k].result)
           /\ Len(ret.res.dicts[k].hits) # Len(ret.res.dicts[k].sa)

\* the rows of a table that belong to one session
RowsOfSession(rows, sessid) == SelectSeq(rows, LAMBDA r : r.sess_id = sessid)

\* the repairs of a session end in the assertion of equal lengths or in the
\* assertion of a known sa failing
StructuralFailure(d) ==
    /\ prepare_dict(d).status = "raised"
    /\ prepare_dict(d).exc = "AssertionError"

\* C18: a structural failure (a length mismatch after the repairs, or an
\* unknown sa level) in one session aborts only the contribution of that
\* session: fetch_latest_training_data still returns the rows of every other
\* session of the requested animals.
C18_FailureIsolated ==
    (/\ FetchCall
     /\ \A a \in Elems(ret.animal_ids) : RawDicts(a) # <<>>
     /\ \E s \in RequestedSessions : prepare_dict(s.protocol_data).status = "ok"
     /\ \A s \in RequestedSessions :
            prepare_dict(s.protocol_data).status = "ok"
                \/ StructuralFailure(s.protocol_data)) =>
        /\ ret.res.status = "ok"
        /\ \A s \in RequestedSessions :
               prepare_dict(s.protocol_data).status = "ok" =>
                   Len(RowsOfSession(ret.res.val.rows, s.sessid))
                       = Cardinality({t \in 1..Len(s.protocol_data.result) :
                                         s.protocol_data.result[t] # CrashResult})

\* C19: in the table of trials no row has result 5, and every started trial of
\* a session whose result is not 5 is exactly one row.
C19_CrashRowsDropped ==
    (FetchCall /\ ret.res.status = "ok") =>
        LET rows == ret.res.val.rows
        IN  /\ \A i \in 1..Len(rows) : rows[i].result # CrashResult
            /\ \A i \in 1..Len(rows) :
                   \E s \in RequestedSessions : s.sessid = rows[i].sess_id
            /\ \A s \in RequestedSessions :
                   LET result == s.protocol_data.result
                   IN  \A t \in 1..Len(s.protocol_data.sa) :
                           LET n == Cardinality({i \in 1..Len(rows) :
                                                    /\ rows[i].sess_id = s.sessid
                                                    /\ rows[i].trial = t})
                           IN  IF t <= Len(result) /\ result[t] # CrashResult
                               THEN /\ n = 1
                                    /\ \E i \in 1..Len(rows) :
                                           /\ rows[i].sess_id = s.sessid
                                           /\ rows[i].trial = t
                                           /\ rows[i].result = result[t]
                               ELSE n = 0

\* a session logged with result 5 on its first trial and other results after
C19_Witness ==
    /\ FetchCall
    /\ ret.res.status = "ok"
    /\ \E s \in RequestedSessions :
           /\ Len(s.protocol_data.result) = 3
           /\ s.protocol_data.result[1] = CrashResult
           /\ Len(RowsOfSession(ret.res.val.rows, s.sessid)) = 2
           /\ RowsOfSession(ret.res.val.rows, s.sessid)[1].trial = 2

-----------------------------------------------------------------------------
(* Further claims about the lazy load, checked under SpecBuild *)

\* C21: every row of the table lazy_load_daily_summary_df returns has its
\* animal_id among the requested animal ids and its date within the requested
\* range, on every return path.
C21_ReturnedRowsRequested ==
    (LazyCall /\ ret.res.status = "ok") =>
        \A i \in 1..Len(ret.res.val) :
            /\ ret.res.val[i].animal_id \in Elems(ret.animal_ids)
            /\ DayOf(ret.res.val[i].date) >= ret.date_min
            /\ DayOf(ret.res.val[i].date) <= ret.date_max

\* C24: over any sequence of calls of lazy_load_daily_summary_df with
\* save_out=True, every (animal_id, date) row that is in the file before a call
\* is in the file after it.
C24_StoredRowsKept ==
    (LazyCall /\ ret.save_out) =>
        \A i \in 1..Len(ret.before.rows) :
            RowsOf(file.rows, ret.before.rows[i].animal_id,
                   DayOf(ret.before.rows[i].date)) # {}

-----------------------------------------------------------------------------
(* A further claim about the session functions, checked under SpecSessions *)

\* C23: for a daily record of N >= 1 sessions, train_dur_hrs is the sum over
\* the sessions of (end time - start time) in hours (to the 2 decimals it is
\* rounded to), and every session contributes a duration that is not negative.
C23_DurationsNonNegative ==
    (SessionCall /\ ret.res.status = "ok" /\ ret.res.val.n_sessions >= 1) =>
        LET S       == DoneSessions(ret.animal_id, ret.date)
            seconds == [i \in S |-> Sessions[i].endtime - Sessions[i].starttime]
            counted == [i \in S |-> IF seconds[i] < 0 THEN 0 ELSE seconds[i]]
            dur     == ret.res.val.train_dur_hrs[2]
        IN  /\ dur >= 0
            /\ Abs(3600 * dur - 100 * SumOver(S, counted)) <= 1800

-----------------------------------------------------------------------------
(* A further claim about the water and mass functions, checked under SpecFields *)

\* C25: fetch_daily_mass substitutes the mass of the day before (with the
\* technician NaN) only when the Mass table has no row for (animal, date); with
\* at least one row for (animal, date) the mass returned is that of a row of
\* that date.
C25_FallbackOnlyWithoutRows ==
    (ret.op = "fetch_daily_mass" /\ ret.res.status = "ok") =>
        LET rows == MassRows(ret.animal_id, ret.date)
        IN  Len(rows) >= 1 =>
                /\ \E i \in 1..Len(rows) : rows[i].mass = ret.res.val[1]
                /\ ret.res.val[2] # NaN

---------------------------------------------------------------------------
\* Further claims about the trial table, checked under SpecTrials

\* the trials of a dictionary as fetched whose is-match flag is false and
\* whose sa is not a key of MAP_SA_TO_SB
UnknownTrials(d) ==
    {t \in 1..Len(d.sa) :
        /\ t <= Len(d.dms_type)
        /\ ~IsMatch(d, t)
        /\ d.sa[t] \notin DOMAIN MAP_SA_TO_SB}

\* the sb repair runs on the dictionary and meets such a trial
RepairMeetsUnknown(d) ==
    /\ "dms_type" \in DOMAIN d
    /\ Len(d.sa) # Len(d.sb)
    /\ UnknownTrials(d) # {}

\* C22: when the sb repair runs on a session that has a non-match trial whose
\* sa is not a key of MAP_SA_TO_SB, pd_prepare_dicts_for_df raises; the
\* repair does not complete: sb keeps its length and the sb value of that
\* trial is the fetched one, never a value from outside the table.
C22_UnknownSaFatal ==
    PrepareCall =>
        LET raw == RawDicts(ret.animal_id)
        IN  \A k \in 1..Len(raw) :
                (RepairMeetsUnknown(raw[k]) /\ Reached(raw, k)) =>
                    /\ ret.res.status = "raised"
                    /\ ret.res.exc \in {"AssertionError", "IndexError"}
                    /\ Len(ret.res.dicts[k].sb) = Len(raw[k].sb)
                    /\ \A t \in UnknownTrials(raw[k]) :
                           t <= Len(raw[k].sb) =>
                               ret.res.dicts[k].sb[t] = raw[k].sb[t]

\* sa of 5000 on the last trial, a non-match trial: the assertion fails
\* there, after the trials before it were rewritten from the table
C22_Witness ==
    /\ PrepareCall
    /\ ret.res.status = "raised"
    /\ ret.res.exc = "AssertionError"
    /\ \E k \in 1..Len(RawDicts(ret.animal_id)) :
           LET d == RawDicts(ret.animal_id)[k]
           IN  /\ RepairMeetsUnknown(d)
               /\ Reached(RawDicts(ret.animal_id), k)
               /\ Len(d.sb) = Len(d.sa) + 1
               /\ d.sa[Len(d.sa)] = 5000
               /\ ret.res.dicts[k].sb[1] = MAP_SA_TO_SB[d.sa[1]]
               /\ ret.res.dicts[k].sb[Len(d.sa)] = d.sb[Len(d.sa)]

\* C26: in the table of fetch_latest_training_data the trial value of a row
\* is the 1-based place of its trial among the started trials of its session,
\* given before the rows with result 5 are dropped: the row carries the side
\* and the result fetched at that place, the trial values of a session
\* increase strictly in row order, and they are exactly the places whose
\* result is not 5, so the places of dropped trials stay unused.
C26_TrialIsStartedPlace ==
    (FetchCall /\ ret.res.status = "ok") =>
        \A s \in RequestedSessions :
            LET r      == RowsOfSession(ret.res.val.rows, s.sessid)
                d      == s.protocol_data
                result == d.result
            IN  /\ \A i \in 1..Len(r) :
                       /\ r[i].trial \in 1..Len(d.sa)
                       /\ r[i].trial <= Len(result)
                       /\ r[i].result = result[r[i].trial]
                       /\ r[i].sides = d.sides.chars[r[i].trial]
                /\ \A i, j \in 1..Len(r) : i < j => r[i].trial < r[j].trial
                /\ {r[i].trial : i \in 1..Len(r)} =
                       {t \in 1..Len(result) :
                           t <= Len(d.sa) /\ result[t] # CrashResult}

\* a session of three started trials whose first has result 5: its two rows
\* have the trial values 2 and 3, the second above the number of rows
C26_Witness ==
    /\ FetchCall
    /\ ret.res.status = "ok"
    /\ \E s \in RequestedSessions :
           LET r == RowsOfSession(ret.res.val.rows, s.sessid)
           IN  /\ Len(s.protocol_data.sa) = 3
               /\ Len(r) = 2
               /\ <<r[1].trial, r[2].trial>> = <<2, 3>>
               /\ r[2].trial > Len(r)

====
